---- MODULE Spec2Model ----
(***************************************************************************)
(* A model of django_pyodbc: the cursor adapter of base.py (CursorWrapper) *)
(* and the statement rewriters of compiler.py (SQLCompiler.as_sql,         *)
(* SQLInsertCompiler._fix_insert, SQLInsertCompiler2).                     *)
(*                                                                         *)
(* SQL text is a sequence of lexical tokens (strings): a token is a        *)
(* keyword, a punctuation character, a '%' conversion ("%s", "%%", "%d"),  *)
(* the driver placeholder "?", white space " " or an identifier.  Python   *)
(* values are records [t |-> type name, v |-> payload as a sequence of     *)
(* integers], so that values of different Python types stay comparable.    *)
(***************************************************************************)
EXTENDS Integers, Sequences, FiniteSets, TLC

VARIABLES
    encoding,      \* CursorWrapper.encoding
    needs_utc,     \* _DJANGO_VERSION >= 14 and settings.USE_TZ
    cursor,        \* the native (pyodbc) cursor behind CursorWrapper.cursor
    last_sql,      \* CursorWrapper.last_sql
    last_params,   \* CursorWrapper.last_params
    call,          \* the wrapper operation last called, with its arguments
    native_log,    \* the calls that operation made on the native cursor
    outcome,       \* what that operation returned or raised
    comp,          \* the last compiler call: its inputs and its result
    db             \* the DatabaseWrapper: its settings, connection, drv_name

vars == <<encoding, needs_utc, cursor, last_sql, last_params, call,
          native_log, outcome, comp, db>>

(***************************************************************************)
(* Bounds of the model.                                                    *)
(***************************************************************************)
MaxSqlLen == 3        \* tokens of a statement given to execute (SpecFormat)
MaxParams == 3        \* parameters given to execute (SpecFormat)
MaxGroupByLen == 4    \* tokens of a statement given to SQLCompiler.as_sql

(***************************************************************************)
(* Sequence helpers.                                                       *)
(***************************************************************************)
SeqsUpTo(S, n) == UNION {[1..k -> S] : k \in 0..n}

RECURSIVE Count(_, _)
Count(tok, toks) ==
    IF toks = <<>> THEN 0
    ELSE (IF Head(toks) = tok THEN 1 ELSE 0) + Count(tok, Tail(toks))

Contains(tok, toks) == \E i \in 1..Len(toks) : toks[i] = tok

(***************************************************************************)
(* Python values.                                                          *)
(***************************************************************************)
PyInt(n)      == [t |-> "int", v |-> <<n>>]
PyBool(b)     == [t |-> "bool", v |-> <<IF b THEN 1 ELSE 0>>]
PyFloat(n)    == [t |-> "float", v |-> <<n>>]
PyNaN         == [t |-> "float", v |-> <<>>]          \* float('nan')
PyNone        == [t |-> "None", v |-> <<>>]
PyUnicode(cs) == [t |-> "unicode", v |-> cs]          \* text_type: code points
PyStr(bs)     == [t |-> "str", v |-> bs]              \* binary_type: bytes
PyDatetime(tz) == [t |-> "datetime", v |-> <<tz>>]    \* tz: 0 naive, 1 UTC

(***************************************************************************)
(* Codecs: unicode.encode('utf-8') and str.decode(encoding), for code      *)
(* points below 0x800 and the encodings 'utf-8' and 'latin-1'.             *)
(***************************************************************************)
RECURSIVE utf8_encode(_)
utf8_encode(cs) ==
    IF cs = <<>> THEN <<>>
    ELSE LET c == Head(cs) IN
         (IF c < 128 THEN <<c>>
          ELSE <<192 + (c \div 64), 128 + (c % 64)>>) \o utf8_encode(Tail(cs))

\* [ok |-> FALSE] stands for UnicodeDecodeError
RECURSIVE utf8_decode(_)
utf8_decode(bs) ==
    IF bs = <<>> THEN [ok |-> TRUE, out |-> <<>>]
    ELSE LET b == Head(bs) IN
         IF b < 128
         THEN LET r == utf8_decode(Tail(bs)) IN
              [ok |-> r.ok, out |-> <<b>> \o r.out]
         ELSE IF b >= 194 /\ b < 224 /\ Len(bs) >= 2 /\ bs[2] >= 128 /\ bs[2] < 192
         THEN LET r == utf8_decode(Tail(Tail(bs))) IN
              [ok |-> r.ok, out |-> <<(b - 192) * 64 + (bs[2] - 128)>> \o r.out]
         ELSE [ok |-> FALSE, out |-> <<>>]

decode(bs, enc) ==
    IF enc = "utf-8" THEN utf8_decode(bs) ELSE [ok |-> TRUE, out |-> bs]

(***************************************************************************)
(* The driver's exception classes (pyodbc, PEP 249) and the generic ones.  *)
(***************************************************************************)
NativeParent ==
    [c \in {"InterfaceError", "DatabaseError"} |-> "Error"] @@
    [c \in {"DataError", "OperationalError", "IntegrityError", "InternalError",
            "ProgrammingError", "NotSupportedError"} |-> "DatabaseError"]

RECURSIVE IsInstance(_, _)
IsInstance(exc, cls) ==
    \/ exc = cls
    \/ exc \in DOMAIN NativeParent /\ IsInstance(NativeParent[exc], cls)

\* base.py binds the name DatabaseError to the driver's root class Error
DatabaseError  == "Error"
IntegrityError == "IntegrityError"

(***************************************************************************)
(* CursorWrapper.format_sql.  PyFormat is  sql % tuple('?' * n)  : each    *)
(* "%s" takes the next argument, "%%" becomes "%", "%d" cannot format the  *)
(* string '?', and arguments left over or missing are a TypeError          *)
(* (ok = FALSE).                                                           *)
(***************************************************************************)
RECURSIVE PyFormat(_, _)
PyFormat(toks, n) ==
    IF toks = <<>> THEN [ok |-> n = 0, out |-> <<>>]
    ELSE LET h == Head(toks) IN
         IF h = "%d" \/ (h = "%s" /\ n = 0) THEN [ok |-> FALSE, out |-> <<>>]
         ELSE LET r == PyFormat(Tail(toks), IF h = "%s" THEN n - 1 ELSE n) IN
              [ok  |-> r.ok,
               out |-> <<(IF h = "%s" THEN "?" ELSE IF h = "%%" THEN "%" ELSE h)>>
                       \o r.out]

ReplaceAll(toks, old, new) ==
    [i \in 1..Len(toks) |-> IF toks[i] = old THEN new ELSE toks[i]]

None == -1        \* n_params=None

\* a translator that ignores the expected count
format_sql_ignoring_count(sql, n_params) ==
    [unicode |-> FALSE, toks |-> ReplaceAll(sql.toks, "%s", "?")]

format_sql(sql, n_params) ==
    LET enc == [unicode |-> FALSE, toks |-> sql.toks] IN  \* sql.encode('utf-8')
    IF n_params # None
    THEN LET r == PyFormat(enc.toks, n_params) IN
         IF r.ok THEN [enc EXCEPT !.toks = r.out] ELSE enc
    ELSE IF Contains("%s", enc.toks)
         THEN [enc EXCEPT !.toks = ReplaceAll(enc.toks, "%s", "?")]
         ELSE enc

(***************************************************************************)
(* CursorWrapper.format_params: one value, then the sequence.              *)
(* exc # "" when the translation raises.                                   *)
(***************************************************************************)
\* a translator that hands booleans on as they are
format_param_keeping_bool(p, enc) ==
    IF p.t = "bool" THEN [exc |-> "", val |-> p]
    ELSE IF p.t = "unicode" THEN [exc |-> "", val |-> PyStr(utf8_encode(p.v))]
    ELSE IF p.t = "str"
    THEN LET d == decode(p.v, enc) IN
         IF d.ok THEN [exc |-> "", val |-> PyStr(utf8_encode(d.out))]
         ELSE [exc |-> "UnicodeDecodeError", val |-> p]
    ELSE [exc |-> "", val |-> p]

format_param(p, enc) ==
    IF p.t = "unicode" THEN [exc |-> "", val |-> PyStr(utf8_encode(p.v))]
    ELSE IF p.t = "str"
    THEN LET d == decode(p.v, enc) IN
         IF d.ok THEN [exc |-> "", val |-> PyStr(utf8_encode(d.out))]
         ELSE [exc |-> "UnicodeDecodeError", val |-> p]
    ELSE IF p.t = "bool"
    THEN [exc |-> "", val |-> IF p.v = <<1>> THEN PyInt(1) ELSE PyInt(0)]
    ELSE [exc |-> "", val |-> p]

format_params(params, enc) ==
    LET fp == [i \in 1..Len(params) |-> format_param(params[i], enc)] IN
    IF \E i \in 1..Len(fp) : fp[i].exc # ""
    THEN [exc |-> "UnicodeDecodeError", val |-> <<>>]
    ELSE [exc |-> "", val |-> [i \in 1..Len(fp) |-> fp[i].val]]

(***************************************************************************)
(* CursorWrapper.format_results: one fetched row.                          *)
(***************************************************************************)
format_result(x, enc, utc) ==
    IF x.t = "str"
    THEN LET d == decode(x.v, enc) IN
         IF d.ok THEN [exc |-> "", val |-> PyUnicode(d.out)]
         ELSE [exc |-> "UnicodeDecodeError", val |-> x]
    ELSE IF utc /\ x.t = "datetime" THEN [exc |-> "", val |-> PyDatetime(1)]
    ELSE [exc |-> "", val |-> x]

format_results(row, enc, utc) ==
    LET fr == [i \in 1..Len(row) |-> format_result(row[i], enc, utc)] IN
    IF \E i \in 1..Len(fr) : fr[i].exc # ""
    THEN [exc |-> "UnicodeDecodeError", val |-> <<>>]
    ELSE [exc |-> "", val |-> [i \in 1..Len(fr) |-> fr[i].val]]

(***************************************************************************)
(* The native cursor.  What the driver answers is the environment's        *)
(* choice: a native outcome is either a success (exc = "", with the result *)
(* set of the statement when it is a query) or an exception with its       *)
(* argument tuple.  A closed native cursor answers every call, close       *)
(* included, with ProgrammingError.                                        *)
(***************************************************************************)
NativeExceptions ==
    {"Error", "InterfaceError", "DatabaseError", "DataError", "OperationalError",
     "IntegrityError", "InternalError", "ProgrammingError", "NotSupportedError"}

\* exceptions the driver raises that are not database errors
OtherExceptions == {"TypeError"}

ExcArgs == {<<"23000", "message">>, <<"message">>}

ClosedArgs == <<"Attempt to use a closed cursor.">>

Row1 == <<PyStr(<<195, 169>>), PyInt(7)>>
Row2 == <<PyDatetime(0), PyStr(<<233>>)>>
RowSets == {<<>>, <<Row1, Row2>>}

NativeOk(query, rows) == [exc |-> "", args |-> <<>>, query |-> query, rows |-> rows]
NativeRaise(exc, args) == [exc |-> exc, args |-> args, query |-> FALSE, rows |-> <<>>]

ExecuteOutcomes ==
    {NativeOk(TRUE, rs) : rs \in RowSets} \cup {NativeOk(FALSE, <<>>)} \cup
    {NativeRaise(e, a) : e \in NativeExceptions \cup OtherExceptions, a \in ExcArgs}

ExecutemanyOutcomes ==
    {NativeOk(FALSE, <<>>)} \cup
    {NativeRaise(e, a) : e \in NativeExceptions \cup OtherExceptions, a \in ExcArgs}

\* the answer of a native call on cursor state c when the driver chose nat
NativeAnswer(c, nat) ==
    IF c.closed THEN NativeRaise("ProgrammingError", ClosedArgs) ELSE nat

\* the native cursor after a statement answered with ans
NativeAfter(c, ans) ==
    IF c.closed THEN c
    ELSE IF ans.exc = "" THEN [c EXCEPT !.query = ans.query, !.rows = ans.rows]
    ELSE [c EXCEPT !.query = FALSE, !.rows = <<>>]

(***************************************************************************)
(* What a wrapper operation returns or raises.                             *)
(***************************************************************************)
Returned(t, items) == [kind |-> "return", t |-> t, items |-> items,
                       exc |-> "", args |-> <<>>]
Raised(exc, args)  == [kind |-> "raise", t |-> "", items |-> <<>>,
                       exc |-> exc, args |-> args]

\* one native call as the log keeps it: what was passed, and what the
\* driver raised (exc, args) or returned (ret: "None", "row", "rows", "cursor")
Logged(op, sql, params, exc, args, ret, rows) ==
    [op |-> op, sql |-> sql, params |-> params, exc |-> exc, args |-> args,
     ret |-> ret, rows |-> rows]

\* the handlers with the two except clauses in the other order
MapNativeErrorBaseFirst(ans) ==
    IF IsInstance(ans.exc, DatabaseError) THEN Raised("utils.DatabaseError", ans.args)
    ELSE IF IsInstance(ans.exc, IntegrityError) THEN Raised("utils.IntegrityError", ans.args)
    ELSE Raised(ans.exc, ans.args)

\* except IntegrityError / except DatabaseError around the native call

MapNativeError(ans) ==
    IF IsInstance(ans.exc, IntegrityError) THEN Raised("utils.IntegrityError", ans.args)
    ELSE IF IsInstance(ans.exc, DatabaseError) THEN Raised("utils.DatabaseError", ans.args)
    ELSE Raised(ans.exc, ans.args)

NoCall == [op |-> "none", sql |-> [unicode |-> FALSE, toks |-> <<>>],
           params |-> <<>>, params_list |-> <<>>, chunk |-> 0]

(***************************************************************************)
(* DatabaseWrapper.__init__: the wrapper a cursor belongs to.  autocommit  *)
(* and unicode_results are its OPTIONS; sql_server_ver and driver are what *)
(* the server and the driver manager will answer.  connection is 0 for     *)
(* None and the number of the native connection otherwise, drv_name is ""  *)
(* for None.  opens, calls and setup are history: the native connections   *)
(* opened so far, the _cursor calls made so far, and the connection whose  *)
(* first-use block ran to its end (0 when there is none).                  *)
(***************************************************************************)
Wrapper(autocommit, unicode_results, ver, driver) ==
    [autocommit |-> autocommit, unicode_results |-> unicode_results,
     sql_server_ver |-> ver, driver |-> driver,
     connection |-> 0, drv_name |-> "", text_field |-> "default",
     can_return_id |-> TRUE, opens |-> 0, calls |-> 0, setup |-> 0]

DefaultWrapper == Wrapper(FALSE, FALSE, 2008, "sqlncli11.dll")

Init ==
    /\ db = DefaultWrapper
    /\ encoding \in {"utf-8", "latin-1"}
    /\ needs_utc \in BOOLEAN
    /\ cursor = [closed |-> FALSE, query |-> FALSE, rows |-> <<>>]
    /\ last_sql = [unicode |-> FALSE, toks |-> <<>>]
    /\ last_params = <<>>
    /\ call = NoCall
    /\ native_log = <<>>
    /\ outcome = Returned("None", <<>>)
    /\ comp = [op |-> "none"]

(***************************************************************************)
(* CursorWrapper.execute(sql, params), the driver answering nat.           *)
(***************************************************************************)
Execute(sql, params, nat) ==
    LET fsql == format_sql(sql, Len(params))
        fp   == format_params(params, encoding)
        ans  == NativeAnswer(cursor, nat)
    IN  /\ call' = [NoCall EXCEPT !.op = "execute", !.sql = sql, !.params = params]
        /\ last_sql' = sql
        /\ IF fp.exc # ""
           THEN /\ outcome' = Raised(fp.exc, <<>>)
                /\ native_log' = <<>>
                /\ UNCHANGED <<last_params, cursor>>
           ELSE /\ last_params' = fp.val
                /\ native_log' = <<Logged("execute", fsql, fp.val, ans.exc, ans.args,
                                          IF ans.exc = "" THEN "cursor" ELSE "", <<>>)>>
                /\ cursor' = NativeAfter(cursor, ans)
                /\ outcome' = IF ans.exc = "" THEN Returned("cursor", <<>>)
                              ELSE MapNativeError(ans)
        /\ UNCHANGED <<db, encoding, needs_utc, comp>>

(***************************************************************************)
(* CursorWrapper.executemany(sql, params_list), the driver answering nat.  *)
(***************************************************************************)
\* the early return taken on the wrong side of the test
ExecutemanyReturnsEarlyInverted(params_list, fsql) ==
    params_list = <<>> /\ ~Contains("?", fsql.toks)

ExecutemanyReturnsEarly(params_list, fsql) ==
    params_list = <<>> /\ Contains("?", fsql.toks)

Executemany(sql, params_list, nat) ==
    LET fsql == format_sql(sql, None)
        fpl  == [i \in 1..Len(params_list) |-> format_params(params_list[i], encoding)]
        bad  == \E i \in 1..Len(fpl) : fpl[i].exc # ""
        ans  == NativeAnswer(cursor, nat)
    IN  /\ call' = [NoCall EXCEPT !.op = "executemany", !.sql = sql,
                                  !.params_list = params_list]
        /\ IF ExecutemanyReturnsEarly(params_list, fsql)
           THEN /\ outcome' = Returned("None", <<>>)
                /\ native_log' = <<>>
                /\ UNCHANGED cursor
           ELSE IF bad
           THEN /\ outcome' = Raised("UnicodeDecodeError", <<>>)
                /\ native_log' = <<>>
                /\ UNCHANGED cursor
           ELSE /\ native_log' = <<Logged("executemany", fsql,
                                         [i \in 1..Len(fpl) |-> fpl[i].val],
                                         ans.exc, ans.args,
                                         IF ans.exc = "" THEN "None" ELSE "", <<>>)>>
                /\ cursor' = NativeAfter(cursor, ans)
                /\ outcome' = IF ans.exc = "" THEN Returned("None", <<>>)
                              ELSE MapNativeError(ans)
        /\ UNCHANGED <<db, encoding, needs_utc, last_sql, last_params, comp>>

(***************************************************************************)
(* CursorWrapper.close(): the driver refuses to close a closed cursor.     *)
(***************************************************************************)
\* close without its except clause
CloseCatchesNothing(exc) == FALSE

CloseCatches(exc) == IsInstance(exc, "ProgrammingError")

NoSql == [unicode |-> FALSE, toks |-> <<>>]

Close ==
    LET ans == IF cursor.closed THEN NativeRaise("ProgrammingError", ClosedArgs)
               ELSE NativeOk(FALSE, <<>>)
    IN  /\ call' = [NoCall EXCEPT !.op = "close"]
        /\ native_log' = <<Logged("close", NoSql, <<>>, ans.exc, ans.args,
                                  IF ans.exc = "" THEN "None" ELSE "", <<>>)>>
        /\ cursor' = [cursor EXCEPT !.closed = TRUE, !.query = FALSE, !.rows = <<>>]
        /\ outcome' = IF ans.exc = "" \/ CloseCatches(ans.exc)
                      THEN Returned("None", <<>>)
                      ELSE Raised(ans.exc, ans.args)
        /\ UNCHANGED <<db, encoding, needs_utc, last_sql, last_params, comp>>

(***************************************************************************)
(* CursorWrapper.fetchone / fetchmany / fetchall.  The native fetch raises *)
(* ProgrammingError on a closed cursor or when the previous statement was  *)
(* no query; native fetchone returns None when no row is left.             *)
(***************************************************************************)
NoResultsArgs == <<"No results.  Previous SQL was not a query.">>

NativeFetchError ==
    IF cursor.closed THEN Raised("ProgrammingError", ClosedArgs)
    ELSE Raised("ProgrammingError", NoResultsArgs)

\* the list [self.format_results(row) for row in rows]
FormatRows(rows) ==
    LET fr == [i \in 1..Len(rows) |-> format_results(rows[i], encoding, needs_utc)] IN
    IF \E i \in 1..Len(fr) : fr[i].exc # ""
    THEN Raised("UnicodeDecodeError", <<>>)
    ELSE Returned("list", [i \in 1..Len(fr) |-> fr[i].val])

\* fetchone handing the driver's None on
FetchoneReturnsNone == Returned("None", <<>>)

FetchoneExhaustedResult == Returned("list", <<>>)

\* a native fetch as the log keeps it
LoggedFetch(op, ret, rows) ==
    IF cursor.closed \/ ~cursor.query
    THEN Logged(op, NoSql, <<>>, NativeFetchError.exc, NativeFetchError.args, "", <<>>)
    ELSE Logged(op, NoSql, <<>>, "", <<>>, ret, rows)

Fetchone ==
    /\ call' = [NoCall EXCEPT !.op = "fetchone"]
    /\ native_log' = <<IF cursor.rows = <<>> THEN LoggedFetch("fetchone", "None", <<>>)
                       ELSE LoggedFetch("fetchone", "row", <<Head(cursor.rows)>>)>>
    /\ IF cursor.closed \/ ~cursor.query
       THEN /\ outcome' = NativeFetchError
            /\ UNCHANGED cursor
       ELSE IF cursor.rows = <<>>
       THEN /\ outcome' = FetchoneExhaustedResult
            /\ UNCHANGED cursor
       ELSE LET fr == format_results(Head(cursor.rows), encoding, needs_utc) IN
            /\ cursor' = [cursor EXCEPT !.rows = Tail(cursor.rows)]
            /\ outcome' = IF fr.exc # "" THEN Raised(fr.exc, <<>>)
                          ELSE Returned("tuple", fr.val)
    /\ UNCHANGED <<db, encoding, needs_utc, last_sql, last_params, comp>>

Fetchmany(chunk) ==
    /\ call' = [NoCall EXCEPT !.op = "fetchmany", !.chunk = chunk]
    /\ native_log' = <<LoggedFetch("fetchmany", "rows",
                                   SubSeq(cursor.rows, 1, IF chunk < Len(cursor.rows)
                                                          THEN chunk ELSE Len(cursor.rows)))>>
    /\ IF cursor.closed \/ ~cursor.query
       THEN /\ outcome' = NativeFetchError
            /\ UNCHANGED cursor
       ELSE LET n == IF chunk < Len(cursor.rows) THEN chunk ELSE Len(cursor.rows) IN
            /\ cursor' = [cursor EXCEPT !.rows = SubSeq(cursor.rows, n + 1, Len(cursor.rows))]
            /\ outcome' = FormatRows(SubSeq(cursor.rows, 1, n))
    /\ UNCHANGED <<db, encoding, needs_utc, last_sql, last_params, comp>>

Fetchall ==
    /\ call' = [NoCall EXCEPT !.op = "fetchall"]
    /\ native_log' = <<LoggedFetch("fetchall", "rows", cursor.rows)>>
    /\ IF cursor.closed \/ ~cursor.query
       THEN /\ outcome' = NativeFetchError
            /\ UNCHANGED cursor
       ELSE /\ cursor' = [cursor EXCEPT !.rows = <<>>]
            /\ outcome' = FormatRows(cursor.rows)
    /\ UNCHANGED <<db, encoding, needs_utc, last_sql, last_params, comp>>

(***************************************************************************)
(* Spec: any sequence of operations on one cursor wrapper.                 *)
(***************************************************************************)
Sql(u, toks) == [unicode |-> u, toks |-> toks]

SqlSamples ==
    {Sql(TRUE, <<"x", "%s">>), Sql(FALSE, <<"x", "?">>), Sql(FALSE, <<"x">>)}

ParamSamples ==
    {<<>>, <<PyBool(TRUE)>>, <<PyUnicode(<<233>>), PyStr(<<233>>)>>}

ParamListSamples ==
    {<<>>, <<<<PyBool(TRUE)>>>>, <<<<PyInt(1)>>, <<PyStr(<<233>>)>>>>}

ChunkSizes == {1, 2}

DoExecute ==
    \E sql \in SqlSamples, params \in ParamSamples, nat \in ExecuteOutcomes :
        Execute(sql, params, nat)

DoExecutemany ==
    \E sql \in SqlSamples, pl \in ParamListSamples, nat \in ExecutemanyOutcomes :
        Executemany(sql, pl, nat)

DoFetchmany == \E chunk \in ChunkSizes : Fetchmany(chunk)

Next == DoExecute \/ DoExecutemany \/ Close \/ Fetchone \/ DoFetchmany \/ Fetchall

Spec == Init /\ [][Next]_vars

(***************************************************************************)
(* SpecFormat: one execute per statement text, for every text of at most   *)
(* MaxSqlLen tokens and every parameter count up to MaxParams.             *)
(***************************************************************************)
FormatTokens == {"%s", "%%", "%d", "?", "x"}

FormatSqls == {Sql(u, toks) : u \in BOOLEAN, toks \in SeqsUpTo(FormatTokens, MaxSqlLen)}

FormatParams == {[i \in 1..n |-> PyInt(i)] : n \in 0..MaxParams}

FormatOutcomes == {NativeOk(TRUE, <<>>), NativeRaise("ProgrammingError", <<"42000", "message">>)}

InitFormat ==
    /\ db = DefaultWrapper
    /\ encoding \in {"utf-8", "latin-1"}
    /\ needs_utc = FALSE
    /\ cursor = [closed |-> FALSE, query |-> FALSE, rows |-> <<>>]
    /\ last_sql = [unicode |-> FALSE, toks |-> <<>>]
    /\ last_params = <<>>
    /\ \E sql \in FormatSqls, params \in FormatParams :
           call = [NoCall EXCEPT !.op = "pending", !.sql = sql, !.params = params]
    /\ native_log = <<>>
    /\ outcome = Returned("None", <<>>)
    /\ comp = [op |-> "none"]

ExecutePending ==
    /\ call.op = "pending"
    /\ \E nat \in FormatOutcomes : Execute(call.sql, call.params, nat)

NextFormat == ExecutePending

SpecFormat == InitFormat /\ [][NextFormat]_vars

\* the sql text the last execute handed to the native cursor
Handed == native_log[1].sql.toks

ExecuteReachedNative == call.op = "execute" /\ native_log # <<>>

\* '?' tokens of the handed text that translation put there
Substituted == Count("?", Handed) - Count("?", call.sql.toks)

\* C1 (as claimed): the sql handed to the native cursor by execute holds
\* exactly len(params) placeholders '?' standing for parameters, whatever
\* the number of '%s' tokens of the incoming sql.
C1_PlaceholdersEqualParams ==
    ExecuteReachedNative => Substituted = Len(call.params)

\* C1 (amended): when the incoming sql has exactly len(params) '%s' tokens
\* and no conversion that rejects a string, the handed sql holds exactly
\* len(params) substituted '?' and no '%s'; otherwise the incoming text is
\* handed to the driver unrewritten.
C1_PlaceholdersWhenCountsMatch ==
    ExecuteReachedNative =>
        IF Count("%s", call.sql.toks) = Len(call.params) /\ ~Contains("%d", call.sql.toks)
        THEN Substituted = Len(call.params) /\ ~Contains("%s", Handed)
        ELSE Handed = call.sql.toks

C1_Witness ==
    /\ ExecuteReachedNative
    /\ Len(call.params) = 2
    /\ Count("%s", call.sql.toks) = 2
    /\ Contains("%%", call.sql.toks)
    /\ Count("?", Handed) = 2

(***************************************************************************)
(* Claims about the cursor adapter, under Spec.                            *)
(***************************************************************************)
NativeRaised ==
    /\ call.op \in {"execute", "executemany"}
    /\ native_log # <<>>
    /\ native_log[1].exc # ""

\* C7: a native IntegrityError raised in execute or executemany comes out as
\* the generic IntegrityError, any other native database error as the generic
\* DatabaseError, both with the native argument tuple; any other exception
\* comes out as it is.
C7_ErrorMapping ==
    NativeRaised =>
        LET e == native_log[1].exc
            a == native_log[1].args
        IN  /\ outcome.kind = "raise"
            /\ outcome.args = a
            /\ outcome.exc = IF e = "IntegrityError" THEN "utils.IntegrityError"
                             ELSE IF e \in NativeExceptions THEN "utils.DatabaseError"
                             ELSE e

C7_Witness ==
    /\ NativeRaised
    /\ call.op = "executemany"
    /\ native_log[1].exc = "IntegrityError"
    /\ outcome = Raised("utils.IntegrityError", <<"23000", "message">>)

\* C8: executemany with an empty params_list, on a statement that holds the
\* driver placeholder after translation, returns without a native call.
C8_EmptyBatchSkipsNative ==
    (/\ call.op = "executemany"
     /\ call.params_list = <<>>
     /\ (Contains("?", call.sql.toks) \/ Contains("%s", call.sql.toks)))
    => native_log = <<>> /\ outcome = Returned("None", <<>>)

C8_Witness ==
    /\ call.op = "executemany"
    /\ call.params_list = <<>>
    /\ Contains("%s", call.sql.toks)
    /\ native_log = <<>>
    /\ cursor.query

\* C9: close never raises, whatever operations came before it, a close or a
\* native cursor that is already closed included.
C9_CloseNeverRaises ==
    call.op = "close" => outcome = Returned("None", <<>>)

C9_Witness ==
    /\ call.op = "close"
    /\ native_log[1].exc = "ProgrammingError"
    /\ outcome.kind = "return"

\* C10: fetchone on an exhausted native cursor (native fetchone gives None)
\* returns an empty sequence, neither raising nor returning None; when the
\* driver gives a row, fetchone returns that row translated: byte strings
\* decoded, datetimes stamped UTC when needs_utc, the rest as they are.
C10_FetchoneExhausted ==
    (call.op = "fetchone" /\ native_log[1].exc = "") =>
        IF native_log[1].ret = "None"
        THEN /\ outcome.kind = "return"
             /\ outcome.t \in {"list", "tuple"}
             /\ outcome.items = <<>>
        ELSE LET row == native_log[1].rows[1] IN
             outcome.kind = "return" =>
                 /\ outcome.t = "tuple"
                 /\ Len(outcome.items) = Len(row)
                 /\ \A i \in 1..Len(row) :
                        outcome.items[i] =
                            IF row[i].t = "str" THEN PyUnicode(decode(row[i].v, encoding).out)
                            ELSE IF row[i].t = "datetime" /\ needs_utc THEN PyDatetime(1)
                            ELSE row[i]

C10_Witness ==
    /\ call.op = "fetchone"
    /\ native_log[1].exc = ""
    /\ native_log[1].ret = "None"
    /\ outcome = Returned("list", <<>>)

(***************************************************************************)
(* SpecParams: format_params called once on every sequence of at most      *)
(* MaxParams values.  call.params is the caller's sequence, before the     *)
(* call and after it.                                                      *)
(***************************************************************************)
ParamValues ==
    {PyBool(TRUE), PyBool(FALSE), PyInt(1), PyInt(0), PyFloat(1), PyNone,
     PyUnicode(<<65>>), PyUnicode(<<233>>), PyStr(<<233>>), PyStr(<<195, 169>>),
     PyDatetime(0)}

InitParams ==
    /\ db = DefaultWrapper
    /\ encoding \in {"utf-8", "latin-1"}
    /\ needs_utc = FALSE
    /\ cursor = [closed |-> FALSE, query |-> FALSE, rows |-> <<>>]
    /\ last_sql = [unicode |-> FALSE, toks |-> <<>>]
    /\ last_params = <<>>
    /\ \E params \in SeqsUpTo(ParamValues, MaxParams) :
           call = [NoCall EXCEPT !.op = "pending", !.params = params]
    /\ native_log = <<>>
    /\ outcome = Returned("None", <<>>)
    /\ comp = [op |-> "none"]

\* the loop reads params and appends to the new list fp; params itself is
\* never written
CallFormatParams ==
    /\ call.op = "pending"
    /\ LET fp == format_params(call.params, encoding) IN
       /\ call' = [call EXCEPT !.op = "format_params"]
       /\ outcome' = IF fp.exc # "" THEN Raised(fp.exc, <<>>)
                     ELSE Returned("tuple", fp.val)
    /\ UNCHANGED <<db, encoding, needs_utc, cursor, last_sql, last_params,
                   native_log, comp>>

NextParams == CallFormatParams

SpecParams == InitParams /\ [][NextParams]_vars

\* out is what C11 says value p becomes: 1/0 for a boolean, for text the
\* bytes that read back as that text in UTF-8, for bytes the bytes that read
\* back in UTF-8 as what p reads in the configured encoding, p otherwise
Translated(p, out, enc) ==
    IF p.t = "bool" THEN out = PyInt(IF p.v = <<1>> THEN 1 ELSE 0)
    ELSE IF p.t = "unicode"
    THEN out.t = "str" /\ utf8_decode(out.v) = [ok |-> TRUE, out |-> p.v]
    ELSE IF p.t = "str"
    THEN out.t = "str" /\ utf8_decode(out.v) = [ok |-> TRUE, out |-> decode(p.v, enc).out]
    ELSE out = p

\* C11: a call of format_params leaves the caller's sequence as it was, and
\* what it returns is a new tuple of the same length and order in which
\* booleans are 1/0, text and byte values are UTF-8 bytes and every other
\* value is the value given.
C11_FormatParamsFrame ==
    [][(call.op = "pending" /\ call'.op = "format_params") =>
           /\ call'.params = call.params
           /\ outcome'.kind = "return" =>
                  /\ outcome'.t = "tuple"
                  /\ Len(outcome'.items) = Len(call.params)
                  /\ \A i \in 1..Len(call.params) :
                         Translated(call.params[i], outcome'.items[i], encoding)]_vars

C11_Witness ==
    /\ call.op = "format_params"
    /\ encoding = "latin-1"
    /\ call.params = <<PyBool(TRUE), PyStr(<<233>>), PyNone>>
    /\ outcome = Returned("tuple", <<PyInt(1), PyStr(<<195, 169>>), PyNone>>)

(***************************************************************************)
(* SQLCompiler.as_sql: the GROUP BY rewrite.                               *)
(***************************************************************************)
\* Python's == on parameter values: bool, int and float compare by number
\* (NaN equals nothing), unicode and str compare equal when both are the
\* same ASCII text, any other pair must agree in type and payload.
Numeric == {"int", "bool", "float"}

Textual == {"unicode", "str"}

PyEq(a, b) ==
    IF a.t \in Numeric /\ b.t \in Numeric THEN a.v # <<>> /\ a.v = b.v
    ELSE IF a.t \in Textual /\ b.t \in Textual
    THEN a.v = b.v /\ (a.t = b.t \/ \A i \in 1..Len(a.v) : a.v[i] < 128)
    ELSE a.t = b.t /\ a.v = b.v

\* _re_advanced_group_by.search(sql): GROUP BY, then a '%s' later on the
\* same line ('.' matches no newline); the optional ORDER BY / LIMIT group
\* after the greedy '.*' constrains nothing.
re_advanced_group_by(toks) ==
    \E i \in 1..Len(toks) : \E j \in (i + 1)..Len(toks) :
        /\ toks[i] = "GROUP BY"
        /\ toks[j] = "%s"
        /\ \A k \in (i + 1)..(j - 1) : toks[k] # "\n"

\* 'p%d' % (i,) for the 1-based position pos
ParamName(pos) == "p" \o ToString(pos - 1)

\* next(name for (name, value) in zip(param_names, params) if value == param_value):
\* the position of the first equal value, 0 when there is none (StopIteration)
FirstEqual(params, value) ==
    IF \E j \in 1..Len(params) : PyEq(params[j], value)
    THEN CHOOSE j \in 1..Len(params) :
             /\ PyEq(params[j], value)
             /\ \A k \in 1..(j - 1) : ~PyEq(params[k], value)
    ELSE 0

\* a naming loop that keeps every position's own name
OwnName(names, params, i) == names[i]

\* the name position i gets, from the names as the loop has left them so far
AssignedName(names, params, i) == names[FirstEqual(params, params[i])]

\* named_params[name] = value on an OrderedDict kept as a sequence of pairs
OrderedDictAppend(od, name, value) == Append(od, [name |-> name, value |-> value])

OrderedDictSet(od, name, value) ==
    IF \E k \in 1..Len(od) : od[k].name = name
    THEN [k \in 1..Len(od) |-> IF od[k].name = name
                               THEN [name |-> name, value |-> value] ELSE od[k]]
    ELSE Append(od, [name |-> name, value |-> value])

\* the for loop of lines 48-53 from position i on
RECURSIVE NamingLoop(_, _, _, _)
NamingLoop(names, od, params, i) ==
    IF i > Len(params) THEN [names |-> names, od |-> od]
    ELSE LET nm == AssignedName(names, params, i) IN
         NamingLoop([names EXCEPT ![i] = nm], OrderedDictSet(od, nm, params[i]),
                    params, i + 1)

\* sql.replace('%s', new, 1)
ReplaceFirst(toks, new) ==
    IF Contains("%s", toks)
    THEN LET f == CHOOSE i \in 1..Len(toks) :
                      toks[i] = "%s" /\ \A k \in 1..(i - 1) : toks[k] # "%s"
         IN  [toks EXCEPT ![f] = new]
    ELSE toks

\* the for loop of lines 69-70 from position i on
RECURSIVE ReplaceLoop(_, _, _, _)
ReplaceLoop(toks, names, tmp_name, i) ==
    IF i > Len(names) THEN toks
    ELSE ReplaceLoop(ReplaceFirst(toks, tmp_name \o "." \o names[i]), names, tmp_name, i + 1)

\* sql.replace('FROM ', 'FROM {tmp_name}, ')
RECURSIVE AddToFrom(_, _)
AddToFrom(toks, tmp_name) ==
    IF toks = <<>> THEN <<>>
    ELSE (IF Head(toks) = "FROM " THEN <<"FROM ", tmp_name, ", ">> ELSE <<Head(toks)>>)
         \o AddToFrom(Tail(toks), tmp_name)

\* ", ".join('%s AS {name}' ...) over the keys of named_params
RECURSIVE WithColumns(_)
WithColumns(od) ==
    IF od = <<>> THEN <<>>
    ELSE <<"%s", " AS " \o od[1].name>> \o
         (IF Len(od) > 1 THEN <<", ">> ELSE <<>>) \o WithColumns(Tail(od))

WithSql(tmp_name, od) ==
    <<"WITH ", tmp_name, " AS (SELECT ">> \o WithColumns(od) \o <<")">>

\* '"TMP_%s"' % (next(tempfile._get_candidate_names()),)
TmpName(candidate) == "\"TMP_" \o candidate \o "\""

CandidateNames == {"tmpa1b2", "x9_k3q"}

\* as_sql on the (sql, params) the parent compiler returned
as_sql(sql, params, candidate) ==
    IF ~re_advanced_group_by(sql)
    THEN [exc |-> "", rewritten |-> FALSE, sql |-> sql, params |-> params]
    ELSE IF \E i \in 1..Len(params) : FirstEqual(params, params[i]) = 0
    THEN [exc |-> "StopIteration", rewritten |-> FALSE, sql |-> sql, params |-> params]
    ELSE LET param_names == [i \in 1..Len(params) |-> ParamName(i)]
             loop     == NamingLoop(param_names, <<>>, params, 1)
             tmp_name == TmpName(candidate)
             replaced == ReplaceLoop(sql, loop.names, tmp_name, 1)
         IN  [exc |-> "", rewritten |-> TRUE,
              sql |-> WithSql(tmp_name, loop.od) \o <<" ">> \o AddToFrom(replaced, tmp_name),
              params |-> [k \in 1..Len(loop.od) |-> loop.od[k].value]]

(***************************************************************************)
(* SpecGroupBy: as_sql applied once to every statement of at most          *)
(* MaxGroupByLen tokens with one parameter per '%s'.                       *)
(***************************************************************************)
GroupByTokens == {"%s", "FROM ", "GROUP BY", "ORDER BY", "\n", "x"}

GroupByValues == {PyInt(1), PyBool(TRUE), PyUnicode(<<65>>), PyNaN}

InitGroupBy ==
    /\ db = DefaultWrapper
    /\ encoding = "utf-8"
    /\ needs_utc = FALSE
    /\ cursor = [closed |-> FALSE, query |-> FALSE, rows |-> <<>>]
    /\ last_sql = [unicode |-> FALSE, toks |-> <<>>]
    /\ last_params = <<>>
    /\ call = NoCall
    /\ native_log = <<>>
    /\ outcome = Returned("None", <<>>)
    /\ \E sql \in SeqsUpTo(GroupByTokens, MaxGroupByLen), candidate \in CandidateNames :
       \E params \in [1..Count("%s", sql) -> GroupByValues] :
           comp = [op |-> "pending", sql |-> sql, params |-> params,
                   candidate |-> candidate]

AsSql ==
    /\ comp.op = "pending"
    /\ comp' = [op |-> "as_sql", sql |-> comp.sql, params |-> comp.params,
                tmp_name |-> TmpName(comp.candidate),
                result |-> as_sql(comp.sql, comp.params, comp.candidate)]
    /\ UNCHANGED <<db, encoding, needs_utc, cursor, last_sql, last_params, call,
                   native_log, outcome>>

NextGroupBy == AsSql

SpecGroupBy == InitGroupBy /\ [][NextGroupBy]_vars

(***************************************************************************)
(* Claims about the GROUP BY rewrite, under SpecGroupBy.                   *)
(***************************************************************************)
Rewritten == comp.op = "as_sql" /\ comp.result.rewritten

\* the positions of params whose value equals no earlier one, in order
RECURSIVE FirstOccurrences(_, _)
FirstOccurrences(params, i) ==
    IF i > Len(params) THEN <<>>
    ELSE (IF \A j \in 1..(i - 1) : ~PyEq(params[j], params[i]) THEN <<i>> ELSE <<>>)
         \o FirstOccurrences(params, i + 1)

\* C2: the parameter list returned by a GROUP BY rewrite holds one entry per
\* distinct value of the original sequence, in order of first occurrence; its
\* length is the number of distinct values and at most the original length.
C2_DistinctParams ==
    Rewritten =>
        LET ps     == comp.params
            out    == comp.result.params
            firsts == FirstOccurrences(ps, 1)
        IN  /\ Len(out) = Len(firsts)
            /\ Len(out) <= Len(ps)
            /\ \A k \in 1..Len(out) : PyEq(out[k], ps[firsts[k]])
            /\ \A a, b \in 1..Len(out) : a # b => ~PyEq(out[a], out[b])

C2_Witness ==
    /\ Rewritten
    /\ Len(comp.params) = 3
    /\ PyEq(comp.params[1], comp.params[3])
    /\ ~PyEq(comp.params[1], comp.params[2])
    /\ Len(comp.result.params) = 2

\* the references "TMP_x".pK of a rewritten statement, left to right
ReferenceTokens == {comp.tmp_name \o "." \o ParamName(k) : k \in 1..Len(comp.params)}

References == SelectSeq(comp.result.sql, LAMBDA t : t \in ReferenceTokens)

\* the column aliases of the CTE, left to right
ColumnTokens == {" AS " \o ParamName(k) : k \in 1..Len(comp.params)}

Columns == SelectSeq(comp.result.sql, LAMBDA t : t \in ColumnTokens)

\* the rewritten statement with the CTE cut off, every reference turned
\* back into '%s' and the temporary relation taken out of the FROM clauses
Undone ==
    LET out  == comp.result.sql
        sep  == CHOOSE i \in 1..Len(out) : out[i] = " "
        body == SelectSeq(SubSeq(out, sep + 1, Len(out)),
                          LAMBDA t : t \notin {comp.tmp_name, ", "})
    IN  [i \in 1..Len(body) |-> IF body[i] \in ReferenceTokens THEN "%s" ELSE body[i]]

\* C3: after the rewrite every original placeholder position i holds a
\* reference "TMP_x".pK whose CTE column is bound, by its position in the new
\* parameter list, to a value equal to params[i]; equal values share one
\* reference; the placeholders left are the CTE's, one per new parameter.
C3_ReferencesBindEqualValues ==
    Rewritten =>
        LET ps  == comp.params
            np  == comp.result.params
            out == comp.result.sql
        IN  /\ Len(References) = Len(ps)
            /\ Undone = comp.sql
            /\ Len(Columns) = Len(np)
            /\ \A i \in 1..Len(ps) :
                   \E c \in 1..Len(Columns), k \in 1..Len(ps) :
                       /\ References[i] = comp.tmp_name \o "." \o ParamName(k)
                       /\ Columns[c] = " AS " \o ParamName(k)
                       /\ PyEq(np[c], ps[i])
            /\ \A i, j \in 1..Len(ps) :
                   PyEq(ps[i], ps[j]) => References[i] = References[j]
            /\ Count("%s", out) = Len(np)
            /\ \A x \in 1..Len(out) :
                   out[x] = "%s" => x < Len(out) /\ out[x + 1] \in ColumnTokens

C3_Witness ==
    /\ Rewritten
    /\ Len(comp.params) = 3
    /\ PyEq(comp.params[2], comp.params[3])
    /\ ~PyEq(comp.params[1], comp.params[2])
    /\ References[2] = References[3]
    /\ References[1] # References[2]

\* the FROM tokens of the rewritten statement that the temporary relation
\* follows
FromWithTmp ==
    LET out == comp.result.sql IN
    {i \in 1..(Len(out) - 1) : out[i] = "FROM " /\ out[i + 1] = comp.tmp_name}

\* C12: the rewrite adds the temporary relation to one FROM clause only, the
\* first, however many FROM tokens the statement holds.
C12_TmpInFirstFromOnly ==
    (Rewritten /\ Contains("FROM ", comp.sql)) =>
        /\ Cardinality(FromWithTmp) = 1
        /\ \A i \in FromWithTmp :
               \A k \in 1..(i - 1) : comp.result.sql[k] # "FROM "

\* a placeholder stands inside the GROUP BY clause of toks: after a GROUP BY
\* keyword, with no ORDER BY or LIMIT keyword in between
PlaceholderInGroupBy(toks) ==
    \E i \in 1..Len(toks) : \E j \in (i + 1)..Len(toks) :
        /\ toks[i] = "GROUP BY"
        /\ toks[j] = "%s"
        /\ \A k \in (i + 1)..(j - 1) : toks[k] \notin {"ORDER BY", "LIMIT"}

\* C13: as_sql rewrites the statement if and only if a placeholder stands
\* inside its GROUP BY clause; any other statement (placeholders only in a
\* later clause, or no GROUP BY) comes back with sql and params unchanged.
C13_RewriteIffPlaceholderInGroupBy ==
    (comp.op = "as_sql" /\ comp.result.exc = "") =>
        /\ comp.result.rewritten <=> PlaceholderInGroupBy(comp.sql)
        /\ ~PlaceholderInGroupBy(comp.sql) =>
               comp.result.sql = comp.sql /\ comp.result.params = comp.params

\* C14: two parameter positions share a synthetic name only when their
\* values have the same type and the same value; values equal only under
\* coercion (1 and True) stay separate entries of the new parameter list.
C14_SharedNameSameTypedValue ==
    Rewritten =>
        /\ \A i, j \in 1..Len(comp.params) :
               References[i] = References[j] => comp.params[i] = comp.params[j]
        /\ Len(comp.result.params) =
               Cardinality({comp.params[i] : i \in 1..Len(comp.params)})

(***************************************************************************)
(* compiler.py, the INSERT rewriters.  A column type is a sequence of      *)
(* characters, so that _re_data_type_terminator can be matched as the      *)
(* regular expression engine matches it.                                   *)
(***************************************************************************)
UpperToLower ==
    [c \in {"I", "D", "E", "N", "T", "Y", "O", "U", "L"} |->
        CASE c = "I" -> "i" [] c = "D" -> "d" [] c = "E" -> "e" [] c = "N" -> "n"
          [] c = "T" -> "t" [] c = "Y" -> "y" [] c = "O" -> "o" [] c = "U" -> "u"
          [] c = "L" -> "l"]

\* re.IGNORECASE on the letters the type strings use
Lower(c) == IF c \in DOMAIN UpperToLower THEN UpperToLower[c] ELSE c

IsSpace(c) == c \in {" ", "\n", "\t"}

IsWordChar(c) == c \notin {" ", "\n", "\t", "(", ")", ",", "[", "]"}

TerminatorKeywords ==
    {<<"f", "i", "l", "e", "s", "t", "r", "e", "a", "m">>,
     <<"c", "o", "l", "l", "a", "t", "e">>,
     <<"s", "p", "a", "r", "s", "e">>,
     <<"n", "o", "t">>,
     <<"n", "u", "l", "l">>,
     <<"c", "o", "n", "s", "t", "r", "a", "i", "n", "t">>,
     <<"d", "e", "f", "a", "u", "l", "t">>,
     <<"i", "d", "e", "n", "t", "i", "t", "y">>,
     <<"r", "o", "w", "g", "u", "i", "d", "c", "o", "l">>,
     <<"p", "r", "i", "m", "a", "r", "y">>,
     <<"u", "n", "i", "q", "u", "e">>,
     <<"c", "l", "u", "s", "t", "e", "r", "e", "d">>,
     <<"n", "o", "n", "c", "l", "u", "s", "t", "e", "r", "e", "d">>,
     <<"w", "i", "t", "h">>,
     <<"o", "n">>,
     <<"f", "o", "r", "e", "i", "g", "n">>,
     <<"r", "e", "f", "e", "r", "e", "n", "c", "e", "s">>,
     <<"c", "h", "e", "c", "k">>}

\* \b(?:keyword) at position q of chars: a word starts at q and begins with
\* a keyword (the pattern has no \b after the keyword)
KeywordStartsAt(chars, q) ==
    /\ q <= Len(chars)
    /\ q = 1 \/ ~IsWordChar(chars[q - 1])
    /\ \E kw \in TerminatorKeywords :
           /\ q + Len(kw) - 1 <= Len(chars)
           /\ \A k \in 1..Len(kw) : Lower(chars[q + k - 1]) = kw[k]

\* _re_data_type_terminator matches at position p: \s* then the keyword
TerminatorMatchesAt(chars, p) ==
    \E q \in p..Len(chars) :
        /\ \A k \in p..(q - 1) : IsSpace(chars[k])
        /\ KeywordStartsAt(chars, q)

\* _re_data_type_terminator.split(db_type)[0]
data_type_split_first(chars) ==
    IF \E p \in 1..Len(chars) : TerminatorMatchesAt(chars, p)
    THEN LET p == CHOOSE x \in 1..Len(chars) :
                      /\ TerminatorMatchesAt(chars, x)
                      /\ \A y \in 1..(x - 1) : ~TerminatorMatchesAt(chars, y)
         IN  SubSeq(chars, 1, p - 1)
    ELSE chars

\* the characters as one token of sql text
RECURSIVE Text(_)
Text(chars) == IF chars = <<>> THEN "" ELSE Head(chars) \o Text(Tail(chars))

DbTypes ==
    {<<"i", "n", "t">>,
     <<"b", "i", "g", "i", "n", "t">>,
     <<"i", "n", "t", " ", "I", "D", "E", "N", "T", "I", "T", "Y", " ", "(", "1", ",", " ", "1", ")">>,
     <<"n", "v", "a", "r", "c", "h", "a", "r", "(", "1", "0", ")", " ", "N", "O", "T", " ", "N", "U", "L", "L">>,
     <<"u", "n", "i", "q", "u", "e", "i", "d", "e", "n", "t", "i", "f", "i", "e", "r">>}

\* connection.ops.quote_name(name), in the bracket or the double-quote style
QuoteStyles == {"[]", "\"\""}

quote_name(style, name) ==
    IF style = "[]" THEN <<"[", name, "]">> ELSE <<"\"", name, "\"">>

(***************************************************************************)
(* SQLInsertCompiler._re_values_sub.sub(output, sql): after every ')' or   *)
(* ']' that is followed by white space, an optional DEFAULT and VALUES,    *)
(* the OUTPUT clause goes in, and the keyword is rewritten as VALUES.      *)
(***************************************************************************)
IsSpaceToken(t) == t \in {" ", "\n"}

\* the index of the first token at or after i that is no white space
RECURSIVE SkipSpace(_, _)
SkipSpace(toks, i) ==
    IF i <= Len(toks) /\ IsSpaceToken(toks[i]) THEN SkipSpace(toks, i + 1) ELSE i

IsValues(toks, i)  == i <= Len(toks) /\ toks[i] \in {"VALUES", "values"}
IsDefault(toks, i) == i <= Len(toks) /\ toks[i] \in {"DEFAULT", "default"}

\* the index of the values keyword of a match whose prefix is at i, or 0
ValuesAfterPrefix(toks, i) ==
    IF toks[i] \notin {")", "]"} THEN 0
    ELSE LET j == SkipSpace(toks, i + 1) IN
         IF IsValues(toks, j) THEN j
         ELSE IF IsDefault(toks, j) /\ IsValues(toks, SkipSpace(toks, j + 1))
         THEN SkipSpace(toks, j + 1)
         ELSE 0

OutputClause(col) ==
    <<" OUTPUT INSERTED.">> \o col \o <<" INTO @sqlserver_ado_return_id">>

RECURSIVE re_values_sub(_, _, _)
re_values_sub(toks, col, i) ==
    IF i > Len(toks) THEN <<>>
    ELSE LET v == ValuesAfterPrefix(toks, i) IN
         IF v = 0 THEN <<toks[i]>> \o re_values_sub(toks, col, i + 1)
         ELSE <<toks[i]>> \o OutputClause(col) \o SubSeq(toks, i + 1, v - 1)
              \o <<"VALUES">> \o re_values_sub(toks, col, v + 1)

(***************************************************************************)
(* The statement the insert compilers work on.  q is the query with its    *)
(* model metadata: q.has_auto_field, q.fields (column names), q.params,    *)
(* q.style (the quoting of names), q.return_id, q.can_return_id            *)
(* (features.can_return_id_from_insert), q.db_type (meta.pk.db_type),      *)
(* q.sql (what the parent compiler returned), q.version (_DJANGO_VERSION)  *)
(* and q.objs (the number of objects of a bulk insert).                    *)
(***************************************************************************)
TableName  == "t"
AutoColumn == "id"      \* meta.auto_field, which is meta.pk

\* ', '.join(items), each item a token sequence
RECURSIVE JoinComma(_)
JoinComma(items) ==
    IF items = <<>> THEN <<>>
    ELSE Head(items) \o (IF Len(items) > 1 THEN <<", ">> ELSE <<>>) \o JoinComma(Tail(items))

QuotedColumns(style, columns) ==
    JoinComma([i \in 1..Len(columns) |-> quote_name(style, columns[i])])

\* one '%s' per bound parameter; a bare DEFAULT per column when none is bound
Placeholders(columns, params) ==
    IF params = <<>> THEN JoinComma([i \in 1..Len(columns) |-> <<"DEFAULT">>])
    ELSE JoinComma([i \in 1..Len(params) |-> <<"%s">>])

\* INSERT INTO <table> (<columns>) VALUES (<placeholders>), as the parent
\* compiler writes it
InsertSql(style, columns, params) ==
    <<"INSERT INTO ">> \o quote_name(style, TableName) \o <<" ", "(">>
    \o QuotedColumns(style, columns) \o <<")", " ", "VALUES", " ", "(">>
    \o Placeholders(columns, params) \o <<")">>

DefaultValuesSql(quoted_table) ==
    <<"INSERT INTO ">> \o quoted_table \o <<" ", "DEFAULT", " ", "VALUES">>

IdentityInsertOn(quoted_table)  == <<"SET IDENTITY_INSERT ">> \o quoted_table \o <<" ON">>
IdentityInsertOff(quoted_table) == <<"SET IDENTITY_INSERT ">> \o quoted_table \o <<" OFF">>

\* the test of line 120 without its first disjunct
UsesDefaultValuesOnlyForKey(fields, params) ==
    AutoColumn \in {fields[i] : i \in 1..Len(fields)} /\ Len(fields) = 1 /\ params = <<>>

\* not fields or (auto_in_fields and len(fields) == 1 and not params)
UsesDefaultValues(fields, params) ==
    \/ fields = <<>>
    \/ AutoColumn \in {fields[i] : i \in 1..Len(fields)} /\ Len(fields) = 1 /\ params = <<>>

\* lines 107-132: DEFAULT VALUES, or the IDENTITY_INSERT wrapping
fix_identity(q) ==
    LET quoted_table   == quote_name(q.style, TableName)
        auto_in_fields == AutoColumn \in {q.fields[i] : i \in 1..Len(q.fields)}
    IN  IF ~q.has_auto_field THEN [sql |-> q.sql, params |-> q.params]
        ELSE IF UsesDefaultValues(q.fields, q.params)
        THEN [sql |-> DefaultValuesSql(quoted_table), params |-> <<>>]
        ELSE IF auto_in_fields
        THEN [sql |-> IdentityInsertOn(quoted_table) \o <<";">> \o q.sql \o <<";">>
                      \o IdentityInsertOff(quoted_table),
              params |-> q.params]
        ELSE [sql |-> q.sql, params |-> q.params]

ReturnsId(q) == q.return_id /\ q.can_return_id

SelectReturnId == "SELECT * FROM @sqlserver_ado_return_id"

DeclareTableVar(col, pk_type) ==
    <<"DECLARE @sqlserver_ado_return_id table ", "(">> \o col \o <<" ", pk_type, ")">>

\* lines 136-153: the return-id batch around sql
fix_return_id(q, sql) ==
    LET col        == quote_name(q.style, AutoColumn)
        pk_db_type == Text(data_type_split_first(q.db_type))
        batch      == <<"SET NOCOUNT ON", ";">> \o DeclareTableVar(col, pk_db_type)
                      \o <<";">> \o sql \o <<";", SelectReturnId>>
    IN  re_values_sub(batch, col, 1)

\* SQLInsertCompiler._fix_insert(sql, params)
fix_insert(q) ==
    LET fixed == fix_identity(q) IN
    <<[sql |-> IF ReturnsId(q) THEN fix_return_id(q, fixed.sql) ELSE fixed.sql,
       params |-> fixed.params]>>

OutputInserted(style) == <<"OUTPUT inserted.">> \o quote_name(style, AutoColumn)

\* SQLInsertCompiler2.as_sql_legacy()
as_sql_legacy(q) ==
    LET quoted_table == quote_name(q.style, TableName)
        returns_id   == ReturnsId(q)
        output       == IF returns_id THEN <<" ">> \o OutputInserted(q.style) ELSE <<>>
        sql == <<"INSERT INTO ">> \o quoted_table \o <<" ", "(">>
               \o QuotedColumns(q.style, q.fields) \o <<")">> \o output
               \o <<" ", "VALUES", " ", "(">> \o Placeholders(q.fields, q.params) \o <<")">>
        auto_in_columns == AutoColumn \in {q.fields[i] : i \in 1..Len(q.fields)}
    IN  IF q.has_auto_field /\ auto_in_columns
        THEN IF Len(q.fields) = 1 /\ q.params = <<>>
             THEN <<[sql |-> <<"INSERT INTO ">> \o quoted_table \o output
                             \o <<" ", "DEFAULT", " ", "VALUES">>,
                     params |-> q.params]>>
             ELSE <<[sql |-> IdentityInsertOn(quoted_table) \o <<";", "\n">> \o sql
                             \o <<";", "\n">> \o IdentityInsertOff(quoted_table),
                     params |-> q.params]>>
        ELSE <<[sql |-> sql, params |-> q.params]>>

\* the value f.get_db_prep_save(...) gives for field i of object o
ObjValue(o, i) == PyInt(10 * o + i)

\* line 233: the return-id form is returned before the identity section
ReturnsEarly(q) == ReturnsId(q)

\* SQLInsertCompiler2.as_sql()
as_sql2(q) ==
    IF q.version < 14 THEN as_sql_legacy(q)
    ELSE LET quoted_table == quote_name(q.style, TableName)
             has_fields   == q.fields # <<>>
             columns      == IF has_fields THEN q.fields ELSE <<AutoColumn>>
             result       == <<"INSERT INTO ">> \o quoted_table \o <<" ", "(">>
                             \o QuotedColumns(q.style, columns) \o <<")">>
             params       == IF has_fields
                             THEN [o \in 1..q.objs |->
                                      [i \in 1..Len(q.fields) |-> ObjValue(o, i)]]
                             ELSE <<<<>>>>
             placeholders == [o \in 1..q.objs |->
                                 IF has_fields THEN JoinComma([i \in 1..Len(q.fields) |-> <<"%s">>])
                                 ELSE <<"DEFAULT">>]
             values(o)    == <<" ", "VALUES", " ", "(">> \o placeholders[o] \o <<")">>
             n            == IF Len(params) < q.objs THEN Len(params) ELSE q.objs
             items        == [o \in 1..n |-> [sql |-> result \o values(o), params |-> params[o]]]
             fixed(item)  == IF AutoColumn \in {columns[i] : i \in 1..Len(columns)}
                             THEN IF ~has_fields
                                  THEN [item EXCEPT !.sql = DefaultValuesSql(quoted_table)]
                                  ELSE [item EXCEPT !.sql =
                                           IdentityInsertOn(quoted_table) \o <<";", "\n">>
                                           \o item.sql \o <<";", "\n">>
                                           \o IdentityInsertOff(quoted_table)]
                             ELSE item
         IN  IF ReturnsEarly(q)
             THEN <<[sql |-> result \o <<" ">> \o OutputInserted(q.style) \o values(1),
                     params |-> params[1]]>>
             ELSE IF q.has_auto_field THEN [o \in 1..n |-> fixed(items[o])]
             ELSE items

(***************************************************************************)
(* SpecInsert: each insert compiler applied once to every query.           *)
(***************************************************************************)
FieldLists == {<<>>, <<"id">>, <<"name">>, <<"id", "name">>}

InsertParams == {<<>>, <<PyInt(5)>>, <<PyInt(5), PyUnicode(<<65>>)>>}

Queries ==
    {[has_auto_field |-> a, fields |-> f, params |-> p, style |-> st,
      return_id |-> r, can_return_id |-> c, db_type |-> ty, version |-> v,
      objs |-> n,
      sql |-> IF parent THEN InsertSql(st, IF f = <<>> THEN <<AutoColumn>> ELSE f, p)
              ELSE <<"x">>] :
        a \in BOOLEAN, f \in FieldLists, p \in InsertParams, st \in QuoteStyles,
        r \in BOOLEAN, c \in BOOLEAN, ty \in DbTypes, v \in {13, 14}, n \in {1, 2},
        parent \in BOOLEAN}

InitInsert ==
    /\ db = DefaultWrapper
    /\ encoding = "utf-8"
    /\ needs_utc = FALSE
    /\ cursor = [closed |-> FALSE, query |-> FALSE, rows |-> <<>>]
    /\ last_sql = [unicode |-> FALSE, toks |-> <<>>]
    /\ last_params = <<>>
    /\ call = NoCall
    /\ native_log = <<>>
    /\ outcome = Returned("None", <<>>)
    /\ \E q \in Queries : comp = [op |-> "pending", q |-> q]

FixInsert ==
    /\ comp.op = "pending"
    /\ comp' = [op |-> "_fix_insert", q |-> comp.q, items |-> fix_insert(comp.q)]
    /\ UNCHANGED <<db, encoding, needs_utc, cursor, last_sql, last_params, call,
                   native_log, outcome>>

AsSqlLegacy ==
    /\ comp.op = "pending"
    /\ comp' = [op |-> "as_sql_legacy", q |-> comp.q, items |-> as_sql_legacy(comp.q)]
    /\ UNCHANGED <<db, encoding, needs_utc, cursor, last_sql, last_params, call,
                   native_log, outcome>>

AsSql2 ==
    /\ comp.op = "pending"
    /\ comp' = [op |-> "as_sql", q |-> comp.q, items |-> as_sql2(comp.q)]
    /\ UNCHANGED <<db, encoding, needs_utc, cursor, last_sql, last_params, call,
                   native_log, outcome>>

NextInsert == FixInsert \/ AsSqlLegacy \/ AsSql2

SpecInsert == InitInsert /\ [][NextInsert]_vars

(***************************************************************************)
(* Claims about the insert compilers, under SpecInsert.                    *)
(***************************************************************************)
InsertDone == comp.op \in {"_fix_insert", "as_sql_legacy", "as_sql"}

QuotedTable == quote_name(comp.q.style, TableName)

QuotedKey == quote_name(comp.q.style, AutoColumn)

KeyInFields == AutoColumn \in {comp.q.fields[i] : i \in 1..Len(comp.q.fields)}

\* the case of C4: a server-generated key, and no field, or the key as only
\* field with no parameter bound
DefaultValuesCase ==
    /\ comp.op = "_fix_insert"
    /\ comp.q.has_auto_field
    /\ \/ comp.q.fields = <<>>
       \/ comp.q.fields = <<AutoColumn>> /\ comp.q.params = <<>>

\* C4 (as claimed): in that case _fix_insert always yields the statement
\* INSERT INTO <quoted table> DEFAULT VALUES with an empty parameter list.
C4_DefaultValuesAlways ==
    DefaultValuesCase =>
        /\ comp.items[1].sql = DefaultValuesSql(QuotedTable)
        /\ comp.items[1].params = <<>>

\* the return-id batch around an INSERT statement
ReturnIdBatch(insert) ==
    <<"SET NOCOUNT ON", ";">>
    \o DeclareTableVar(QuotedKey, Text(data_type_split_first(comp.q.db_type)))
    \o <<";">> \o insert \o <<";", SelectReturnId>>

\* C4 (amended): in that case the parameter list is empty, whatever sql and
\* params came in; the statement is exactly INSERT INTO <quoted table>
\* DEFAULT VALUES when no return-id is requested or supported, and otherwise
\* that INSERT, with or without the OUTPUT clause before DEFAULT VALUES,
\* inside the SET NOCOUNT ON / DECLARE / SELECT batch.
C4_DefaultValuesUnlessReturnId ==
    DefaultValuesCase =>
        /\ comp.items[1].params = <<>>
        /\ IF ReturnsId(comp.q)
           THEN comp.items[1].sql \in
                    {ReturnIdBatch(DefaultValuesSql(QuotedTable)),
                     ReturnIdBatch(<<"INSERT INTO ">> \o QuotedTable
                                   \o OutputClause(QuotedKey)
                                   \o <<" ", "DEFAULT", " ", "VALUES">>)}
           ELSE comp.items[1].sql = DefaultValuesSql(QuotedTable)

C4_Witness ==
    /\ DefaultValuesCase
    /\ comp.q.fields = <<>>
    /\ comp.q.params # <<>>
    /\ ~ReturnsId(comp.q)
    /\ comp.items[1].sql = DefaultValuesSql(QuotedTable)
    /\ comp.items[1].params = <<>>

\* sub occurs in toks from index i on
OccursAt(toks, sub, i) ==
    /\ i + Len(sub) - 1 <= Len(toks)
    /\ SubSeq(toks, i, i + Len(sub) - 1) = sub

IndexSet(toks, sub) == {i \in 1..Len(toks) : OccursAt(toks, sub, i)}

\* the first token of the statement to bracket: the sql _fix_insert was
\* given, the INSERT the other compilers write themselves
OriginalStart ==
    IF comp.op = "_fix_insert" THEN comp.q.sql[1] ELSE "INSERT INTO "

\* SET IDENTITY_INSERT ... ON, then the statement, then SET IDENTITY_INSERT ... OFF
Bracketed(toks) ==
    \E i \in IndexSet(toks, IdentityInsertOn(QuotedTable)) :
    \E j \in IndexSet(toks, <<OriginalStart>>) :
    \E k \in IndexSet(toks, IdentityInsertOff(QuotedTable)) : i < j /\ j < k

\* the parameters the compiler was given for item o
GivenParams(o) ==
    IF comp.op = "as_sql" /\ comp.q.version >= 14
    THEN [i \in 1..Len(comp.q.fields) |-> ObjValue(o, i)]
    ELSE comp.q.params

ParamsBound ==
    IF comp.op = "as_sql" /\ comp.q.version >= 14 THEN comp.q.fields # <<>>
    ELSE comp.q.params # <<>>

\* C5: when an INSERT gives the server-generated key an explicit value (the
\* key column is in the column list and parameters are bound), every statement
\* the insert compilers produce has the INSERT between SET IDENTITY_INSERT ON
\* and SET IDENTITY_INSERT OFF, with the parameters unchanged.
C5_ExplicitKeyIsBracketed ==
    (InsertDone /\ comp.q.has_auto_field /\ KeyInFields /\ ParamsBound) =>
        \A o \in 1..Len(comp.items) :
            /\ Bracketed(comp.items[o].sql)
            /\ comp.items[o].params = GivenParams(o)

\* the OUTPUT clause stands immediately before VALUES or DEFAULT VALUES
OutputBeforeValues(toks, i) ==
    LET after == i + Len(OutputClause(QuotedKey)) IN
    \/ OccursAt(toks, <<" ", "VALUES">>, after)
    \/ OccursAt(toks, <<" ", "DEFAULT", " ", "VALUES">>, after)

\* C6: with return-id requested and supported, the statement _fix_insert
\* produces starts with SET NOCOUNT ON, holds exactly one OUTPUT INSERTED.<col>
\* INTO @sqlserver_ado_return_id clause, immediately before VALUES or DEFAULT
\* VALUES, and ends with the one SELECT * FROM @sqlserver_ado_return_id.
C6_ReturnIdShape ==
    (comp.op = "_fix_insert" /\ ReturnsId(comp.q) /\ Contains("VALUES", comp.q.sql)) =>
        LET out == comp.items[1].sql IN
        /\ out[1] = "SET NOCOUNT ON"
        /\ Cardinality(IndexSet(out, OutputClause(QuotedKey))) = 1
        /\ \A i \in IndexSet(out, OutputClause(QuotedKey)) : OutputBeforeValues(out, i)
        /\ Count(SelectReturnId, out) = 1
        /\ out[Len(out)] = SelectReturnId

\* the word of chars that starts at q is one of the keywords, all of it
KeywordWordAt(chars, q) ==
    /\ q <= Len(chars)
    /\ q = 1 \/ ~IsWordChar(chars[q - 1])
    /\ \E kw \in TerminatorKeywords :
           LET e == q + Len(kw) - 1 IN
           /\ e <= Len(chars)
           /\ \A k \in 1..Len(kw) : Lower(chars[q + k - 1]) = kw[k]
           /\ e = Len(chars) \/ ~IsWordChar(chars[e + 1])

\* white space, then a keyword as a word, from position p on
KeywordFollows(chars, p) ==
    \E q \in p..Len(chars) :
        /\ \A k \in p..(q - 1) : IsSpace(chars[k])
        /\ KeywordWordAt(chars, q)

\* the declared type cut at the first keyword that occurs as a keyword
BaseType(chars) ==
    IF \E p \in 1..Len(chars) : KeywordFollows(chars, p)
    THEN LET p == CHOOSE x \in 1..Len(chars) :
                      /\ KeywordFollows(chars, x)
                      /\ \A y \in 1..(x - 1) : ~KeywordFollows(chars, y)
         IN  SubSeq(chars, 1, p - 1)
    ELSE chars

\* C16: the table variable of the return-id batch is declared with the
\* primary key's type cut at the first constraint or modifier keyword that
\* occurs as a keyword; a declared type that begins with a type name which
\* is no keyword (int, nvarchar(10), uniqueidentifier) gives that type name,
\* which is not empty.
C16_TableVarHasBaseType ==
    (comp.op = "_fix_insert" /\ ReturnsId(comp.q)) =>
        /\ BaseType(comp.q.db_type) # <<>>
        /\ IndexSet(comp.items[1].sql,
                    DeclareTableVar(QuotedKey, Text(BaseType(comp.q.db_type)))) # {}

(***************************************************************************)
(* DatabaseWrapper._cursor.  One call runs up to six steps that can raise: *)
(* Database.connect, connection_created.send, connection.cursor(), the     *)
(* read of ops.sql_server_ver, connection.getinfo and connection.commit.   *)
(* Which step raises, if any, is the environment's choice; nothing in      *)
(* _cursor catches, so the call ends there.                                *)
(***************************************************************************)
MaxCursorCalls == 3     \* _cursor calls on one wrapper (SpecConn)

FirstUseSteps ==
    <<"connect", "connection_created", "cursor", "sql_server_ver", "getinfo", "commit">>

\* the place of a step in the body of _cursor; raising nowhere comes last
StepNo(step) ==
    IF step = "none" THEN Len(FirstUseSteps) + 1
    ELSE CHOOSE k \in 1..Len(FirstUseSteps) : FirstUseSteps[k] = step

Drivers == {"sqlncli11.dll", "libtdsodbc.so"}

\* getinfo(SQL_DRIVER_NAME).upper()
Upper(name) == IF name = "sqlncli11.dll" THEN "SQLNCLI11.DLL" ELSE "LIBTDSODBC.SO"

\* drv_name.startswith('LIBTDSODBC')
IsFreeTDS(drv_name) == drv_name = "LIBTDSODBC.SO"

\* the steps a call on wrapper w goes through when none of them raises
StepRuns(step, w) ==
    CASE step = "cursor" -> TRUE
      [] step = "commit" -> w.connection = 0 /\ IsFreeTDS(Upper(w.driver)) /\ ~w.autocommit
      [] OTHER           -> w.connection = 0

ConnectArgs(w) ==
    IF w.unicode_results THEN <<PyBool(w.autocommit), PyStr(<<84, 114, 117, 101>>)>>
    ELSE <<PyBool(w.autocommit)>>

ConnectionErrorArgs == <<"08S01", "message">>

StepException(step) == IF step = "connection_created" THEN "Exception" ELSE "Error"

\* the native calls of one _cursor call that raises at step number f
ConnectionLog(w, f) ==
    LET entry(k, params, ret) ==
            IF StepRuns(FirstUseSteps[k], w) /\ f >= k
            THEN <<Logged(FirstUseSteps[k], NoSql, params,
                          IF f = k THEN "Error" ELSE "",
                          IF f = k THEN ConnectionErrorArgs ELSE <<>>,
                          IF f = k THEN "" ELSE ret, <<>>)>>
            ELSE <<>>
    IN  entry(1, ConnectArgs(w), "connection") \o entry(3, <<>>, "cursor")
        \o entry(5, <<>>, "name") \o entry(6, <<>>, "None")

CursorCall(fail) ==
    /\ db.calls < MaxCursorCalls
    /\ fail = "none" \/ StepRuns(fail, db)
    /\ LET f        == StepNo(fail)
           new_conn == db.connection = 0
           done(k)  == StepRuns(FirstUseSteps[k], db) /\ f > k
       IN  /\ db' = [db EXCEPT
                        !.connection    = IF done(1) THEN db.opens + 1 ELSE @,
                        !.opens         = IF done(1) THEN @ + 1 ELSE @,
                        !.text_field    = IF done(4) /\ db.sql_server_ver < 2005
                                          THEN "ntext" ELSE @,
                        !.can_return_id = IF done(4) /\ db.sql_server_ver < 2005
                                          THEN FALSE ELSE @,
                        !.drv_name      = IF done(5) THEN Upper(db.driver) ELSE @,
                        !.setup         = IF new_conn /\ fail = "none"
                                          THEN db.opens + 1 ELSE @,
                        !.calls         = @ + 1]
           /\ native_log' = ConnectionLog(db, f)
           /\ call' = [NoCall EXCEPT !.op = "_cursor"]
           /\ IF fail = "none"
              THEN \* CursorWrapper(cursor, self.encoding)
                   /\ outcome' = Returned("CursorWrapper", <<>>)
                   /\ cursor' = [closed |-> FALSE, query |-> FALSE, rows |-> <<>>]
                   /\ last_sql' = NoSql
                   /\ last_params' = <<>>
              ELSE /\ outcome' = Raised(StepException(fail), ConnectionErrorArgs)
                   /\ UNCHANGED <<cursor, last_sql, last_params>>
    /\ UNCHANGED <<encoding, needs_utc, comp>>

InitConn ==
    /\ \E a \in BOOLEAN, u \in BOOLEAN, ver \in {2000, 2008}, d \in Drivers :
           db = Wrapper(a, u, ver, d)
    /\ encoding = "utf-8"
    /\ needs_utc = FALSE
    /\ cursor = [closed |-> FALSE, query |-> FALSE, rows |-> <<>>]
    /\ last_sql = [unicode |-> FALSE, toks |-> <<>>]
    /\ last_params = <<>>
    /\ call = NoCall
    /\ native_log = <<>>
    /\ outcome = Returned("None", <<>>)
    /\ comp = [op |-> "none"]

NextConn ==
    \E fail \in {FirstUseSteps[k] : k \in 1..Len(FirstUseSteps)} \cup {"none"} :
        CursorCall(fail)

SpecConn == InitConn /\ [][NextConn]_vars

\* the last _cursor call found a connection cached and used it
UsedCachedConnection ==
    /\ call.op = "_cursor"
    /\ native_log # <<>>
    /\ native_log[1].op = "cursor"

\* C15: over any sequence of _cursor calls the native connection is opened at
\* most once, and a _cursor call that uses the cached connection finds it
\* with its one-time interrogation completed: a connection whose
\* interrogation did not complete is not reused as if it were set up.
C15_OpenedOnceAndSetUpBeforeReuse ==
    call.op = "_cursor" =>
        /\ db.opens <= 1
        /\ UsedCachedConnection => db.setup = db.connection

====
